---- MODULE Spec2Model ----
(***************************************************************************)
(* Model of test-mock-server-imds.py: a single-endpoint mock of the        *)
(* instance-metadata service.  The main routine binds localhost:8080,      *)
(* prints three start-up lines and runs the blocking serve loop of         *)
(* http.server.HTTPServer; MockIMDSHandler.do_GET answers one path with a  *)
(* JSON object holding "now + 2 minutes" and every other path with 404.    *)
(*                                                                         *)
(* Text (paths excepted, which are only compared for equality) is a        *)
(* sequence of one-character strings, so that formatting, serialising and  *)
(* parsing are computed and not assumed.                                   *)
(***************************************************************************)
EXTENDS Integers, Sequences, FiniteSets, TLC

(* Bound of the model: how many client connections are opened in a run. *)
MaxConns == 2

(***************************************************************************)
(* datetime: the naive UTC value datetime.utcnow() returns.                *)
(***************************************************************************)
DateTime(y, mo, d, h, mi, s, us) ==
    [year |-> y, month |-> mo, day |-> d, hour |-> h, minute |-> mi,
     second |-> s, microsecond |-> us]

IsLeap(y) == (y % 4 = 0) /\ ((y % 100 # 0) \/ (y % 400 = 0))

DaysInMonth(y, m) ==
    IF m = 2 THEN (IF IsLeap(y) THEN 29 ELSE 28)
    ELSE IF m \in {4, 6, 9, 11} THEN 30 ELSE 31

(* The calendar day after the day of t, the time of day kept. *)
NextDay(t) ==
    IF t.day < DaysInMonth(t.year, t.month) THEN [t EXCEPT !.day = t.day + 1]
    ELSE IF t.month < 12 THEN [t EXCEPT !.day = 1, !.month = t.month + 1]
    ELSE [t EXCEPT !.day = 1, !.month = 1, !.year = t.year + 1]

RECURSIVE AddDays(_, _)
AddDays(t, n) == IF n = 0 THEN t ELSE AddDays(NextDay(t), n - 1)

(* datetime + timedelta(minutes=m): the seconds of the day are summed with *)
(* the offset, whole days carry into the date, microseconds are untouched. *)
AddMinutes(t, m) ==
    LET total == t.hour * 3600 + t.minute * 60 + t.second + m * 60
        rem   == total % 86400
        moved == AddDays(t, total \div 86400)
    IN  [moved EXCEPT !.hour = rem \div 3600,
                      !.minute = (rem % 3600) \div 60,
                      !.second = rem % 60]

(* The clock values the model lets the wall clock take, in time order:     *)
(* sub-second part zero and non-zero, and an offset that carries into the  *)
(* next minute, hour, day, month (a leap day) and year.                    *)
ClockSamples ==
    << DateTime(2023, 12, 31, 23, 59, 59, 999999),
       DateTime(2024, 1, 1, 0, 0, 0, 0),
       DateTime(2024, 2, 28, 23, 58, 30, 500) >>

(***************************************************************************)
(* Text.                                                                   *)
(***************************************************************************)
Digits == << "0", "1", "2", "3", "4", "5", "6", "7", "8", "9" >>

RECURSIVE Pow10(_)
Pow10(k) == IF k = 0 THEN 1 ELSE 10 * Pow10(k - 1)

(* "%0<w>d" % n *)
Pad(n, w) == [i \in 1..w |-> Digits[((n \div Pow10(w - i)) % 10) + 1]]

isoformat_always_fraction(t) ==
    Pad(t.year, 4) \o << "-" >> \o Pad(t.month, 2) \o << "-" >> \o Pad(t.day, 2)
    \o << "T" >> \o Pad(t.hour, 2) \o << ":" >> \o Pad(t.minute, 2)
    \o << ":" >> \o Pad(t.second, 2) \o << "." >> \o Pad(t.microsecond, 6)

(* datetime.isoformat(): "YYYY-MM-DDTHH:MM:SS", followed by ".ffffff" only *)
(* when the microsecond field is not zero.                                 *)
isoformat(t) ==
    Pad(t.year, 4) \o << "-" >> \o Pad(t.month, 2) \o << "-" >> \o Pad(t.day, 2)
    \o << "T" >> \o Pad(t.hour, 2) \o << ":" >> \o Pad(t.minute, 2)
    \o << ":" >> \o Pad(t.second, 2)
    \o (IF t.microsecond # 0 THEN << "." >> \o Pad(t.microsecond, 6) ELSE << >>)

notice_time_no_offset(t) == isoformat(t) \o << "Z" >>

(* notice_time = (datetime.utcnow() + timedelta(minutes=2)).isoformat() + 'Z' *)
notice_time(t) == isoformat(AddMinutes(t, 2)) \o << "Z" >>

RECURSIVE Escape(_)
Escape(s) ==
    IF s = << >> THEN << >>
    ELSE IF Head(s) \in { "\"", "\\" } THEN << "\\", Head(s) >> \o Escape(Tail(s))
    ELSE << Head(s) >> \o Escape(Tail(s))

JsonString(s) == << "\"" >> \o Escape(s) \o << "\"" >>

RECURSIVE JsonMembers(_)
JsonMembers(d) ==
    IF d = << >> THEN << >>
    ELSE JsonString(d[1][1]) \o << ":", " " >> \o JsonString(d[1][2])
         \o (IF Len(d) > 1 THEN << ",", " " >> ELSE << >>)
         \o JsonMembers(Tail(d))

(* json.dumps of a dict of strings, the dict given as its items in order. *)
JsonDumps(d) == << "{" >> \o JsonMembers(d) \o << "}" >>

NoticeTimeKey == << "n", "o", "t", "i", "c", "e", "T", "i", "m", "e" >>

(***************************************************************************)
(* Reading text back, as a client of the endpoint does.                    *)
(***************************************************************************)
IsDigit(c) == c \in { "0", "1", "2", "3", "4", "5", "6", "7", "8", "9" }

DigitVal(c) ==
    CASE c = "0" -> 0 [] c = "1" -> 1 [] c = "2" -> 2 [] c = "3" -> 3 [] c = "4" -> 4
      [] c = "5" -> 5 [] c = "6" -> 6 [] c = "7" -> 7 [] c = "8" -> 8 [] c = "9" -> 9

RECURSIVE Num(_, _, _)
Num(s, i, j) == IF j < i THEN 0 ELSE Num(s, i, j - 1) * 10 + DigitVal(s[j])

AllDigits(s, i, j) == \A k \in i..j : IsDigit(s[k])

(* s begins with YYYY-MM-DDTHH:MM:SS *)
SecondsShape(s) ==
    /\ Len(s) >= 19
    /\ AllDigits(s, 1, 4) /\ s[5] = "-" /\ AllDigits(s, 6, 7) /\ s[8] = "-"
    /\ AllDigits(s, 9, 10) /\ s[11] = "T" /\ AllDigits(s, 12, 13) /\ s[14] = ":"
    /\ AllDigits(s, 15, 16) /\ s[17] = ":" /\ AllDigits(s, 18, 19)

(* YYYY-MM-DDTHH:MM:SS.ffffffZ *)
FractionShape(s) ==
    /\ Len(s) = 27 /\ SecondsShape(s)
    /\ s[20] = "." /\ AllDigits(s, 21, 26) /\ s[27] = "Z"

(* YYYY-MM-DDTHH:MM:SSZ *)
WholeSecondShape(s) == Len(s) = 20 /\ SecondsShape(s) /\ s[20] = "Z"

(* The instant a noticeTime string denotes. *)
ParseNoticeTime(s) ==
    DateTime(Num(s, 1, 4), Num(s, 6, 7), Num(s, 9, 10), Num(s, 12, 13),
             Num(s, 15, 16), Num(s, 18, 19),
             IF FractionShape(s) THEN Num(s, 21, 26) ELSE 0)

RECURSIVE DaysBeforeMonth(_, _)
DaysBeforeMonth(y, m) ==
    IF m = 1 THEN 0 ELSE DaysBeforeMonth(y, m - 1) + DaysInMonth(y, m - 1)

(* Proleptic Gregorian ordinal of the day of t (date.toordinal). *)
Ordinal(t) ==
    LET y == t.year - 1
    IN  y * 365 + (y \div 4) - (y \div 100) + (y \div 400)
        + DaysBeforeMonth(t.year, t.month) + t.day

SecondOfDay(t) == t.hour * 3600 + t.minute * 60 + t.second

(* Whole seconds from b to a, the microsecond fields left aside. *)
SecondsBetween(a, b) ==
    (Ordinal(a) - Ordinal(b)) * 86400 + (SecondOfDay(a) - SecondOfDay(b))

Before(a, b) ==
    \/ SecondsBetween(b, a) > 0
    \/ SecondsBetween(b, a) = 0 /\ a.microsecond < b.microsecond

NotAfter(a, b) == a = b \/ Before(a, b)

(* A JSON string starting at s[i]: its value and the index after it. *)
RECURSIVE ReadChars(_, _, _)
ReadChars(s, i, acc) ==
    IF i > Len(s) THEN [ok |-> FALSE, val |-> acc, next |-> i]
    ELSE IF s[i] = "\"" THEN [ok |-> TRUE, val |-> acc, next |-> i + 1]
    ELSE IF s[i] = "\\" /\ i < Len(s) THEN ReadChars(s, i + 2, Append(acc, s[i + 1]))
    ELSE ReadChars(s, i + 1, Append(acc, s[i]))

ReadString(s, i) ==
    IF i <= Len(s) /\ s[i] = "\"" THEN ReadChars(s, i + 1, << >>)
    ELSE [ok |-> FALSE, val |-> << >>, next |-> i]

RECURSIVE SkipSpace(_, _)
SkipSpace(s, i) == IF i <= Len(s) /\ s[i] = " " THEN SkipSpace(s, i + 1) ELSE i

(* The members of a JSON object of strings from s[i] on. *)
RECURSIVE ReadMembers(_, _, _)
ReadMembers(s, i, acc) ==
    LET k == ReadString(s, SkipSpace(s, i))
        c == SkipSpace(s, k.next)
        v == ReadString(s, SkipSpace(s, c + 1))
        e == SkipSpace(s, v.next)
    IN  IF ~k.ok \/ c > Len(s) \/ s[c] # ":" \/ ~v.ok \/ e > Len(s)
        THEN [ok |-> FALSE, items |-> acc]
        ELSE IF s[e] = "}" /\ e = Len(s)
        THEN [ok |-> TRUE, items |-> Append(acc, << k.val, v.val >>)]
        ELSE IF s[e] = ","
        THEN ReadMembers(s, e + 1, Append(acc, << k.val, v.val >>))
        ELSE [ok |-> FALSE, items |-> acc]

(* json.loads of a body that is an object of strings. *)
JsonLoads(s) ==
    IF Len(s) < 2 \/ s[1] # "{" THEN [ok |-> FALSE, items |-> << >>]
    ELSE IF SkipSpace(s, 2) = Len(s) /\ s[Len(s)] = "}"
    THEN [ok |-> TRUE, items |-> << >>]
    ELSE ReadMembers(s, 2, << >>)

(***************************************************************************)
(* Requests and responses.                                                 *)
(***************************************************************************)
RecognizedPath == "/latest/meta-data/rebalance-recommendation"

(* The requests clients send: the recognized path, near misses of it       *)
(* (trailing slash, letter case, query string), other paths, other methods.*)
RequestSamples ==
    { [method |-> "GET",  path |-> RecognizedPath],
      [method |-> "GET",  path |-> "/latest/meta-data/rebalance-recommendation/"],
      [method |-> "GET",  path |-> "/latest/meta-data/Rebalance-Recommendation"],
      [method |-> "GET",  path |-> "/latest/meta-data/rebalance-recommendation?a=1"],
      [method |-> "GET",  path |-> "/"],
      [method |-> "POST", path |-> RecognizedPath],
      [method |-> "HEAD", path |-> "/foo"] }

(* Header names are compared without regard to letter case. *)
LowerName(n) ==
    CASE n \in { "Content-type", "Content-Type" } -> "content-type"
      [] n = "Content-Length" -> "content-length"
      [] n = "Connection" -> "connection"
      [] n = "Server" -> "server"
      [] n = "Date" -> "date"
      [] OTHER -> n

HeaderValues(r, name) ==
    { r.headers[i][2] : i \in { j \in DOMAIN r.headers :
                                  LowerName(r.headers[j][1]) = LowerName(name) } }

(* send_response(code): the status line and the library's Server and Date  *)
(* headers, whose values play no part here.                                *)
send_response(code) ==
    [status |-> code, headers |-> << << "Server", "BaseHTTP" >>, << "Date", "http-date" >> >>,
     body |-> << >>]

send_header(r, name, value) == [r EXCEPT !.headers = Append(@, << name, value >>)]

write(r, data) == [r EXCEPT !.body = @ \o data]

ErrorPage == << "<", "h", "t", "m", "l", ">" >>

(* send_error(501): what the library answers when the handler class has no *)
(* do_<METHOD>; a HEAD request gets the headers without the page.          *)
send_error(method) ==
    LET r == send_header(send_header(send_header(send_response(501),
                 "Connection", "close"),
                 "Content-Type", "text/html;charset=utf-8"),
                 "Content-Length", "len")
    IN  IF method = "HEAD" THEN r ELSE write(r, ErrorPage)

(***************************************************************************)
(* State.                                                                  *)
(***************************************************************************)
VARIABLES
    pc,                \* where the main routine is
    portFree,          \* environment: whether localhost:8080 can be bound
    bound,             \* the listening socket exists
    bindAttempts,      \* how many times the bind was attempted
    printed,           \* start-up lines printed so far
    exitStatus,        \* exit status of the process, -1 while it runs
    shutdown_request,  \* BaseServer.__shutdown_request
    is_shut_down,      \* BaseServer.__is_shut_down (an Event)
    conns,             \* the client connections, in the order they were opened
    backlog,           \* connections waiting in the listen queue
    handling,          \* connections accepted and not yet finished
    recvAt,            \* the clock when the connection in hand was accepted, 0 with none
    served,            \* history: the requests answered, with their responses
    now,               \* the wall clock, an index into ClockSamples
    interrupts,        \* interrupt signals delivered to the process
    interruptedServing \* history: an interrupt arrived during the serve loop

vars == << pc, portFree, bound, bindAttempts, printed, exitStatus,
           shutdown_request, is_shut_down, conns, backlog, handling, recvAt,
           served, now, interrupts, interruptedServing >>

utcnow == ClockSamples[now]

(***************************************************************************)
(* MockIMDSHandler.                                                        *)
(***************************************************************************)
NotFound == send_response(404)

RebalanceNotice(text) ==
    write(send_header(send_response(200), "Content-type", "application/json"),
          JsonDumps(<< << NoticeTimeKey, text >> >>))

do_GET_no_content_type(path, t) ==
    IF path = RecognizedPath
    THEN write(send_response(200), JsonDumps(<< << NoticeTimeKey, notice_time(t) >> >>))
    ELSE NotFound

do_GET_normalising(path, t) ==
    IF path \in { RecognizedPath, "/latest/meta-data/rebalance-recommendation/" }
    THEN RebalanceNotice(notice_time(t))
    ELSE NotFound

do_GET_cached(path, t) ==
    IF path = RecognizedPath
    THEN LET earlier == { i \in DOMAIN served : served[i].response.status = 200 }
         IN  IF earlier = {} THEN RebalanceNotice(notice_time(t))
             ELSE served[CHOOSE i \in earlier : TRUE].response
    ELSE NotFound

(* do_GET: the response to a GET of self.path when utcnow() returns t. *)
do_GET(path, t) ==
    IF path = RecognizedPath
    THEN RebalanceNotice(notice_time(t))
    ELSE NotFound

HasHandler_any_method(method) == method \in { "GET", "POST", "HEAD" }

(* hasattr(self, 'do_' + command): the class defines do_GET and no other. *)
HasHandler(method) == method = "GET"

(* BaseHTTPRequestHandler.handle_one_request for a well-formed request. *)
handle_one_request(method, path, t) ==
    IF HasHandler(method) THEN do_GET(path, t) ELSE send_error(method)

(***************************************************************************)
(* The main routine.                                                       *)
(***************************************************************************)
BindFailureIsFatal_swallowed == FALSE

(* The constructor call is outside any try: an OSError ends the process. *)
BindFailureIsFatal == TRUE

ProcessRequestBlocks_threaded == FALSE

(* HTTPServer.process_request runs the handler to completion in the loop's *)
(* own thread (it is not ThreadingHTTPServer).                             *)
ProcessRequestBlocks == TRUE

InServeLoop == pc \in { "select", "handle" }

InTryBlock_none == FALSE

(* The try block holds the serve_forever() call and nothing else: the call *)
(* being entered, and the loop it runs.                                    *)
InTryBlock == pc = "entering" \/ InServeLoop

StartupLines == 3

Init ==
    /\ pc = "start"
    /\ portFree \in BOOLEAN
    /\ bound = FALSE
    /\ bindAttempts = 0
    /\ printed = 0
    /\ exitStatus = -1
    /\ shutdown_request = FALSE
    /\ is_shut_down = FALSE
    /\ conns = << >>
    /\ backlog = << >>
    /\ handling = {}
    /\ recvAt = 0
    /\ served = << >>
    /\ now \in DOMAIN ClockSamples
    /\ interrupts = 0
    /\ interruptedServing = FALSE

(* HTTPServer(('localhost', 8080), MockIMDSHandler): bind and listen. *)
BindOk ==
    /\ pc = "start" /\ portFree
    /\ bindAttempts' = bindAttempts + 1
    /\ bound' = TRUE
    /\ pc' = "print"
    /\ UNCHANGED << recvAt, portFree, printed, exitStatus, shutdown_request, is_shut_down,
                    conns, backlog, handling, served, now, interrupts,
                    interruptedServing >>

(* The bind raises OSError, which nothing catches: traceback, status 1. *)
BindFail ==
    /\ pc = "start" /\ ~portFree
    /\ bindAttempts' = bindAttempts + 1
    /\ IF BindFailureIsFatal
       THEN pc' = "exited" /\ exitStatus' = 1
       ELSE pc' = "print" /\ exitStatus' = exitStatus
    /\ UNCHANGED << recvAt, portFree, bound, printed, shutdown_request, is_shut_down,
                    conns, backlog, handling, served, now, interrupts,
                    interruptedServing >>

(* One of the three print calls. *)
PrintLine ==
    /\ pc = "print" /\ printed < StartupLines
    /\ printed' = printed + 1
    /\ UNCHANGED << recvAt, pc, portFree, bound, bindAttempts, exitStatus, shutdown_request,
                    is_shut_down, conns, backlog, handling, served, now,
                    interrupts, interruptedServing >>

(* try: server.serve_forever() is called; it clears the event first. *)
EnterServeForever ==
    /\ pc = "print" /\ printed = StartupLines
    /\ is_shut_down' = FALSE
    /\ pc' = "entering"
    /\ UNCHANGED << recvAt, portFree, bound, bindAttempts, printed, exitStatus,
                    shutdown_request, conns, backlog, handling, served, now,
                    interrupts, interruptedServing >>

(* serve_forever() enters its own try/finally and starts to poll. *)
ServeForever ==
    /\ pc = "entering"
    /\ pc' = "select"
    /\ UNCHANGED << recvAt, portFree, bound, bindAttempts, printed, exitStatus,
                    shutdown_request, is_shut_down, conns, backlog, handling,
                    served, now, interrupts, interruptedServing >>

(* A client connects to the listening socket and sends its request. *)
Connect(req) ==
    /\ bound /\ Len(conns) < MaxConns
    /\ conns' = Append(conns, [method |-> req.method, path |-> req.path,
                               state |-> "queued"])
    /\ backlog' = Append(backlog, Len(conns) + 1)
    /\ UNCHANGED << recvAt, pc, portFree, bound, bindAttempts, printed, exitStatus,
                    shutdown_request, is_shut_down, handling, served, now,
                    interrupts, interruptedServing >>

(* The loop's select() reports the socket readable: get_request() accepts  *)
(* the oldest waiting connection and process_request() takes it.           *)
Accept ==
    /\ pc = "select" /\ ~shutdown_request /\ backlog # << >>
    /\ LET c == Head(backlog)
       IN  /\ conns' = [conns EXCEPT ![c].state = "accepted"]
           /\ handling' = handling \cup { c }
    /\ backlog' = Tail(backlog)
    /\ recvAt' = now
    /\ pc' = IF ProcessRequestBlocks THEN "handle" ELSE "select"
    /\ UNCHANGED << portFree, bound, bindAttempts, printed, exitStatus,
                    shutdown_request, is_shut_down, served, now, interrupts,
                    interruptedServing >>

(* The handler reads the request, dispatches on the method and writes the  *)
(* response; do_GET reads the clock here.                                  *)
HandleRequest(c) ==
    /\ InServeLoop /\ c \in handling /\ conns[c].state = "accepted"
    /\ served' = Append(served,
           [conn |-> c, method |-> conns[c].method, path |-> conns[c].path,
            clock |-> utcnow,
            response |-> handle_one_request(conns[c].method, conns[c].path, utcnow)])
    /\ conns' = [conns EXCEPT ![c].state = "answered"]
    /\ UNCHANGED << recvAt, pc, portFree, bound, bindAttempts, printed, exitStatus,
                    shutdown_request, is_shut_down, backlog, handling, now,
                    interrupts, interruptedServing >>

(* shutdown_request(request): the connection is closed and the loop goes   *)
(* back to select().                                                       *)
FinishRequest(c) ==
    /\ InServeLoop /\ c \in handling /\ conns[c].state = "answered"
    /\ conns' = [conns EXCEPT ![c].state = "closed"]
    /\ handling' = handling \ { c }
    /\ recvAt' = 0
    /\ pc' = "select"
    /\ UNCHANGED << portFree, bound, bindAttempts, printed, exitStatus,
                    shutdown_request, is_shut_down, backlog, served, now,
                    interrupts, interruptedServing >>

(* An interrupt signal raises KeyboardInterrupt in the main thread.  In    *)
(* the try block it is caught; from the serve loop it first goes through   *)
(* the library's cleanup (the connection in hand is closed unanswered, the *)
(* finally clause of serve_forever() resets __shutdown_request and sets    *)
(* __is_shut_down), which an interrupt that comes before the loop has      *)
(* started does not run.  Anywhere else it is uncaught and the process     *)
(* dies of it.                                                             *)
Interrupt ==
    /\ pc # "exited"
    /\ interrupts' = interrupts + 1
    /\ interruptedServing' = (interruptedServing \/ InServeLoop)
    /\ IF InTryBlock
       THEN /\ pc' = "except"
            /\ shutdown_request' = (IF InServeLoop THEN FALSE ELSE shutdown_request)
            /\ is_shut_down' = (IF InServeLoop THEN TRUE ELSE is_shut_down)
            /\ conns' = [c \in DOMAIN conns |->
                           IF c \in handling /\ conns[c].state = "accepted"
                           THEN [conns[c] EXCEPT !.state = "dropped"]
                           ELSE IF c \in handling
                           THEN [conns[c] EXCEPT !.state = "closed"]
                           ELSE conns[c]]
            /\ handling' = {}
            /\ recvAt' = 0
            /\ UNCHANGED << bound, exitStatus >>
       ELSE /\ pc' = "exited"
            /\ exitStatus' = 130
            /\ bound' = FALSE
            /\ UNCHANGED << shutdown_request, is_shut_down, conns, handling, recvAt >>
    /\ UNCHANGED << portFree, bindAttempts, printed, backlog, served, now >>

(* except KeyboardInterrupt: server.shutdown() sets the request flag and   *)
(* waits for __is_shut_down.  With the event set the wait returns at once, *)
(* the script has reached its end and the process exits with status 0;     *)
(* with the event clear the call blocks, and nothing is left to set it.    *)
Shutdown ==
    /\ pc = "except"
    /\ shutdown_request' = TRUE
    /\ IF is_shut_down
       THEN pc' = "exited" /\ exitStatus' = 0 /\ bound' = FALSE
       ELSE pc' = "shutdown_wait" /\ UNCHANGED << exitStatus, bound >>
    /\ UNCHANGED << recvAt, portFree, bindAttempts, printed, is_shut_down, conns,
                    backlog, handling, served, now, interrupts,
                    interruptedServing >>

(* The wall clock moves forward between two reads of it (it is read only   *)
(* while the server serves); a clock of coarse resolution may also give    *)
(* two reads the same value, which is no step at all ...                   *)
Tick ==
    /\ InServeLoop
    /\ \E n \in DOMAIN ClockSamples : n > now /\ now' = n
    /\ UNCHANGED << recvAt, pc, portFree, bound, bindAttempts, printed, exitStatus,
                    shutdown_request, is_shut_down, conns, backlog, handling,
                    served, interrupts, interruptedServing >>

(* ... or is set back (utcnow() reads the adjustable system time). *)
ClockSetBack ==
    /\ InServeLoop
    /\ \E n \in DOMAIN ClockSamples : n < now /\ now' = n
    /\ UNCHANGED << recvAt, pc, portFree, bound, bindAttempts, printed, exitStatus,
                    shutdown_request, is_shut_down, conns, backlog, handling,
                    served, interrupts, interruptedServing >>

MainThreadStep ==
    BindOk \/ BindFail \/ PrintLine \/ EnterServeForever \/ ServeForever \/ Shutdown

Next ==
    \/ BindOk
    \/ BindFail
    \/ PrintLine
    \/ EnterServeForever
    \/ ServeForever
    \/ \E req \in RequestSamples : Connect(req)
    \/ Accept
    \/ \E c \in DOMAIN conns : HandleRequest(c)
    \/ \E c \in DOMAIN conns : FinishRequest(c)
    \/ Interrupt
    \/ Shutdown
    \/ Tick
    \/ ClockSetBack

Spec == Init /\ [][Next]_vars

(* The main thread is the only thread and is never starved: whichever of   *)
(* its steps is possible is eventually taken.                              *)
FairSpec == Spec /\ WF_vars(MainThreadStep)

(***************************************************************************)
(* Properties.                                                             *)
(***************************************************************************)
Recognized(e) == e.method = "GET" /\ e.path = RecognizedPath

(* The noticeTime text a response body carries. *)
NoticeOf(e) == JsonLoads(e.response.body).items[1][2]

RecognizedEntries == { i \in DOMAIN served : Recognized(served[i]) }

(* i and j are successive requests to the recognized path. *)
Successive(i, j) ==
    /\ i \in RecognizedEntries /\ j \in RecognizedEntries /\ i < j
    /\ ~ \E k \in RecognizedEntries : i < k /\ k < j

(* C1: every GET of the recognized path, whatever was served before, is    *)
(* answered with status 200, a Content-Type header equal to                *)
(* application/json and a body that is a JSON object with exactly one key, *)
(* noticeTime.                                                             *)
C1_RecognizedPathAnswer ==
    \A i \in RecognizedEntries :
        LET r == served[i].response
            j == JsonLoads(r.body)
        IN  /\ r.status = 200
            /\ HeaderValues(r, "Content-Type") = { "application/json" }
            /\ j.ok /\ Len(j.items) = 1 /\ j.items[1][1] = NoticeTimeKey

C1_Witness ==
    /\ Len(served) >= 2
    /\ served[1].response.status # 200
    /\ Recognized(served[2])

EntryOf(c) == served[CHOOSE i \in DOMAIN served : served[i].conn = c]

(* C3: the noticeTime of a response to the recognized path is the clock    *)
(* value read while handling the request plus exactly 120 seconds, and so  *)
(* is strictly after the instant the request was received whenever the     *)
(* clock did not go backwards between receipt and handling.                *)
C3_NoticeIsClockPlus120 ==
    /\ \A i \in RecognizedEntries :
          LET n == ParseNoticeTime(NoticeOf(served[i]))
          IN  /\ SecondsBetween(n, served[i].clock) = 120
              /\ n.microsecond = served[i].clock.microsecond
    /\ \A c \in handling :
          (conns[c].state = "answered" /\ Recognized(EntryOf(c))
             /\ NotAfter(ClockSamples[recvAt], EntryOf(c).clock))
          => Before(ClockSamples[recvAt], ParseNoticeTime(NoticeOf(EntryOf(c))))

C3_Witness ==
    \E c \in handling :
        /\ conns[c].state = "answered" /\ Recognized(EntryOf(c))
        /\ Before(ClockSamples[recvAt], EntryOf(c).clock)
        /\ EntryOf(c).clock.day # ParseNoticeTime(NoticeOf(EntryOf(c))).day

(* C4, as stated: two successive requests to the recognized path yield two *)
(* different noticeTime values, the later one never earlier.               *)
C4_AlwaysDifferentAndOrdered ==
    \A i, j \in DOMAIN served :
        Successive(i, j) =>
            /\ NoticeOf(served[i]) # NoticeOf(served[j])
            /\ NotAfter(ParseNoticeTime(NoticeOf(served[i])),
                        ParseNoticeTime(NoticeOf(served[j])))

(* C4, amended: each noticeTime is computed from the clock read of its own *)
(* request and never reused, so two successive requests yield different    *)
(* values exactly when their clock reads differ, and the later value is    *)
(* later, equal or earlier as the later clock read is.                     *)
C4_FreshFromClock ==
    \A i, j \in DOMAIN served :
        Successive(i, j) =>
            LET ni == NoticeOf(served[i])
                nj == NoticeOf(served[j])
                ci == served[i].clock
                cj == served[j].clock
            IN  /\ (ni = nj) <=> (ci = cj)
                /\ Before(ParseNoticeTime(ni), ParseNoticeTime(nj)) <=> Before(ci, cj)
                /\ Before(ParseNoticeTime(nj), ParseNoticeTime(ni)) <=> Before(cj, ci)

C4_Witness ==
    \E i, j \in DOMAIN served :
        /\ Successive(i, j)
        /\ Before(served[i].clock, served[j].clock)
        /\ NoticeOf(served[i]) # NoticeOf(served[j])

C6_BindFailureIsFatal ==
    /\ [](~portFree =>
            /\ pc \in { "start", "exited" }
            /\ bindAttempts <= 1 /\ ~bound
            /\ printed = 0 /\ served = << >> /\ handling = {} /\ conns = << >>
            /\ (pc = "exited" => exitStatus \notin { -1, 0 }))
    /\ [](printed > 0 => bindAttempts = 1)
    /\ (~portFree ~> pc = "exited")

C6_Witness ==
    ~portFree /\ pc = "exited" /\ bindAttempts = 1 /\ exitStatus = 1

(* C7, as stated: every noticeTime has the shape                           *)
(* YYYY-MM-DDTHH:MM:SS.ffffffZ, also when the sub-second part is zero.     *)
C7_AlwaysSixDigitFraction ==
    \A i \in RecognizedEntries : FractionShape(NoticeOf(served[i]))

(* C7, amended: the noticeTime is YYYY-MM-DDTHH:MM:SS.ffffffZ when the     *)
(* microsecond part of clock + 2 minutes is not zero and                   *)
(* YYYY-MM-DDTHH:MM:SSZ, without a fractional part, when it is zero; there *)
(* is a single trailing Z either way.                                      *)
C7_FractionUnlessZero ==
    \A i \in RecognizedEntries :
        IF served[i].clock.microsecond = 0
        THEN WholeSecondShape(NoticeOf(served[i]))
        ELSE FractionShape(NoticeOf(served[i]))

C7_Witness ==
    \E i, j \in RecognizedEntries :
        /\ served[i].clock.microsecond = 0
        /\ served[j].clock.microsecond # 0

(* C9: connections are handled strictly one at a time, in the order they   *)
(* arrived: at most one request is in hand, none is in hand when the loop  *)
(* is ready to accept, and a connection is in hand or answered only when   *)
(* every earlier connection is finished.                                   *)
C9_OneAtATime ==
    /\ Cardinality(handling) <= 1
    /\ (pc = "select" => handling = {})
    /\ (handling # {} => pc = "handle")
    /\ \A c \in DOMAIN conns : \A d \in DOMAIN conns :
          (d < c /\ conns[c].state # "queued") => conns[d].state \in { "closed", "dropped" }
    /\ \A i, j \in DOMAIN served : i < j => served[i].conn < served[j].conn

C9_Witness ==
    /\ Len(served) = 2
    /\ conns[1].state = "closed"
    /\ conns[2].state = "answered" /\ handling = { 2 }

(* C10: a request with a method other than GET, on any path, never gets    *)
(* the 200 answer with a noticeTime nor the handler's 404: it gets the     *)
(* library's 501, and the server keeps serving (only an interrupt takes    *)
(* the process out of the serve loop).                                     *)
C10_OnlyGetIsRouted ==
    /\ \A i \in DOMAIN served :
          served[i].method # "GET" =>
              /\ served[i].response.status = 501
              /\ ~JsonLoads(served[i].response.body).ok
    /\ (served # << >> /\ interrupts = 0) => (InServeLoop /\ bound)

C10_Witness ==
    /\ Len(served) = 2
    /\ served[1].method = "POST" /\ served[1].path = RecognizedPath
    /\ served[2].response.status = 200

====
